---- MODULE Spec2Model ----
(***************************************************************************)
(* A model of the zyratv pipeline: the batch driver (main.py), the video  *)
(* assembly engine (video.py) and the speech front end (tts.py).          *)
(*                                                                         *)
(* Spec         the batch driver running make_video script after script,  *)
(*              over a persistent file system (final videos, clip cache). *)
(* SpecAlloc    the duration allocator of make_video on its own.          *)
(* SpecQueries  the query deriver, _auto_queries, on its own.             *)
(***************************************************************************)
EXTENDS Integers, Sequences, FiniteSets, TLC

(***************************************************************************)
(* Bounds of the model.                                                    *)
(***************************************************************************)
NumScripts == 2      \* script files found by discover_scripts
NumIds == 2          \* distinct script identifiers the files may carry
NumUrls == 1         \* distinct clip URLs the search API may return
MaxVideos == 2       \* videos in one search response
MaxQueries == 3      \* longest query list handed to _pexels_pick_multi
MaxRuns == 2         \* consecutive runs of run_pipeline over the same disk
MaxSegments == 2     \* largest value of the SEGMENTS environment variable
MaxParas == 2        \* paragraphs of a script body (driver model)
HashSpace == 16      \* size of the modelled digest space of _url_cache_path

(***************************************************************************)
(* Program constants.                                                      *)
(***************************************************************************)
MinQueries == 3      \* GENERIC_FALLBACKS always end the query list
NumSafety == 2       \* "nature portrait", "city lights portrait"
Retries == 2         \* _download(url, dest, retries=2)

Scripts == 1..NumScripts
Ids == 1..NumIds
URLs == 1..NumUrls

Min(a, b) == IF a <= b THEN a ELSE b
Max(a, b) == IF a >= b THEN a ELSE b
SeqsUpTo(S, n) == UNION {[1..k -> S] : k \in 0..n}

VARIABLES
  \* process environment and the script files
  apiKey,        \* PEXELS_API_KEY is set
  segments,      \* value of SEGMENTS
  limit,         \* VIDEOS_LIMIT (0: none)
  \* file system
  audioFile,     \* output/audio/<sid>.mp3 exists (the file of the script in hand;
                 \* every other one is rewritten before it is read)
  finalFile,     \* id -> state of output/final/<id>.mp4
  cacheFile,     \* cache path -> state of input/media_temp/px_<h>.mp4
  \* run_pipeline
  pc, run, idx, produced, visited,
  failed,        \* first script of this run whose make_video raised (0: none)
  sid,           \* script_id of the script being processed, or of the one
                 \* just skipped as done (0: none)
  usedIds,       \* ids under which this run has written an audio file
  \* make_video
  nq,            \* len(queries)
  qi,            \* position in the query list / in the safety list
  collected,     \* _pexels_pick_multi's collected URLs (then make_video's urls)
  ui,            \* position in urls
  attempt,       \* _download's attempt
  cacheHit,      \* os.path.exists(dest) as last evaluated
  vclips,        \* opened background clips
  opened,        \* number of real clips opened by this call
  segs,          \* number of segments composed
  \* history
  renderedOK,    \* ids whose write_videofile ran to completion
  downloadedOK,  \* URLs whose download has succeeded
  raisedIn,      \* step at which the last exception was raised
  mvResult,      \* how the last make_video call ended
  scriptMeta,    \* meta of the script in hand, as parse_script returned it
  queryMeta,     \* meta as _auto_queries received it from make_video
  openHandles,   \* media handles the make_video call in hand (or the last
                 \* one) has opened and not closed
  \* the duration allocator on its own (SpecAlloc)
  alloc,
  \* the query deriver on its own (SpecQueries)
  query,
  \* the retry loops of _download and _speak_chunk on their own (SpecRetry)
  retry,
  \* _pick_vertical_urls on its own (SpecPick)
  pick,
  \* _chunk_by_limit on its own (SpecChunk)
  chunker

envVars == <<apiKey, segments, limit>>
fsVars == <<audioFile, finalFile, cacheFile>>
drvVars == <<run, idx, produced, visited, failed, sid>>
mvVars == <<nq, qi, collected, ui, attempt, cacheHit, vclips, opened, segs>>
histVars == <<renderedOK, downloadedOK, raisedIn, mvResult>>
metaVars == <<scriptMeta, queryMeta>>
driverVars ==
  <<envVars, fsVars, pc, drvVars, mvVars, histVars, metaVars, openHandles,
    usedIds>>
pureVars == <<alloc, query, retry, pick, chunker>>
vars == <<driverVars, pureVars>>

(***************************************************************************)
(* The search API: responses, _pexels_search, _pick_vertical_urls.         *)
(***************************************************************************)
NoLink == 0          \* a file with no "link" (f.get("link", "") == "")
NonHttp == -1        \* a link that does not start with "http"

\* sorted(..., key=(height, width), reverse=True): stable, descending.
KeyGreater(f, g) ==
  \/ f.height > g.height
  \/ f.height = g.height /\ f.width > g.width

RECURSIVE SortFiles(_)
SortFiles(files) ==
  IF files = <<>> THEN <<>>
  ELSE LET n == Len(files)
           best == CHOOSE i \in 1..n :
                     /\ \A j \in 1..n : ~KeyGreater(files[j], files[i])
                     /\ \A j \in 1..(i-1) : KeyGreater(files[i], files[j])
           rest == [k \in 1..(n-1) |-> IF k < best THEN files[k] ELSE files[k+1]]
       IN <<files[best]>> \o SortFiles(rest)

\* A mutant of FirstVertical: the h >= w test is dropped.
RECURSIVE FirstVerticalAnyShape(_)
FirstVerticalAnyShape(files) ==
  IF files = <<>> THEN NoLink
  ELSE LET f == Head(files)
       IN IF f.link # NoLink /\ f.link # NonHttp
          THEN f.link
          ELSE FirstVerticalAnyShape(Tail(files))

\* "pick first vertical-ish file": the link of the first file with a truthy
\* http link and h >= w, NoLink when the video has none.
RECURSIVE FirstVertical(_)
FirstVertical(files) ==
  IF files = <<>> THEN NoLink
  ELSE LET f == Head(files)
       IN IF f.link # NoLink /\ f.height >= f.width /\ f.link # NonHttp
          THEN f.link
          ELSE FirstVertical(Tail(files))

\* A mutant of PickLoop: the need test is dropped.
RECURSIVE PickLoopNoLimit(_, _, _, _)
PickLoopNoLimit(videos, need, i, urls) ==
  IF i > Len(videos) THEN urls
  ELSE LET link == FirstVertical(SortFiles(videos[i].video_files))
           urls2 == IF link # NoLink THEN Append(urls, link) ELSE urls
       IN PickLoopNoLimit(videos, need, i + 1, urls2)

RECURSIVE PickLoop(_, _, _, _)
PickLoop(videos, need, i, urls) ==
  IF i > Len(videos) THEN urls
  ELSE LET link == FirstVertical(SortFiles(videos[i].video_files))
           urls2 == IF link # NoLink THEN Append(urls, link) ELSE urls
       IN IF Len(urls2) >= need THEN urls2
          ELSE PickLoop(videos, need, i + 1, urls2)

PickVerticalUrls(videos, need) == PickLoop(videos, need, 1, <<>>)

\* _pick_vertical_urls's state while it is not running; from is a history
\* of the indices of the videos whose file was appended.
PickIdle ==
  [pc |-> "idle", videos |-> <<>>, need |-> 0, i |-> 0, urls |-> <<>>,
   from |-> <<>>]

\* _chunk_by_limit's state while it is not running; groups and group are a
\* history: the indices of the sentences that went into each chunk and
\* into buf.
ChunkIdle ==
  [pc |-> "idle", sentences |-> <<>>, max_chars |-> 0, i |-> 0,
   buf |-> <<>>, chunks |-> <<>>, groups |-> <<>>, group |-> <<>>]

\* The responses the driver model draws from: a video holds one file, a
\* portrait one with a URL or a landscape one.
PortraitVideo(u) == [video_files |-> <<[width |-> 1, height |-> 2, link |-> u]>>]
LandscapeVideo == [video_files |-> <<[width |-> 2, height |-> 1, link |-> 1]>>]
DriverVideos == {PortraitVideo(u) : u \in URLs} \cup {LandscapeVideo}
DriverVideoLists == SeqsUpTo(DriverVideos, MaxVideos)

\* What requests.get can come back with: an exception (timeout, connection
\* error), or a response with a status, a content type and a body.  A JSON
\* body is a dict or not; a dict may lack "videos", hold a list there, or
\* hold something that is no list (null).
HttpBodies ==
  {[isDict |-> FALSE, videos |-> "missing", list |-> <<>>],
   [isDict |-> TRUE, videos |-> "missing", list |-> <<>>],
   [isDict |-> TRUE, videos |-> "null", list |-> <<>>]}
  \cup {[isDict |-> TRUE, videos |-> "list", list |-> l] : l \in DriverVideoLists}

HttpOutcomes ==
  {[raised |-> TRUE, ok |-> FALSE, json |-> FALSE,
    body |-> [isDict |-> FALSE, videos |-> "missing", list |-> <<>>]]}
  \cup {[raised |-> FALSE, ok |-> o, json |-> j, body |-> b] :
          o \in BOOLEAN, j \in BOOLEAN, b \in HttpBodies}

Failed == [ok |-> FALSE, isList |-> TRUE, videos |-> <<>>]

\* _pexels_search: the dict it returns; isList tells whether "videos" holds
\* a list (len() and iteration are defined on it).
PexelsSearch(key, http) ==
  IF ~key THEN Failed
  ELSE IF http.raised THEN Failed
  ELSE IF ~http.json THEN [ok |-> http.ok, isList |-> TRUE, videos |-> <<>>]
  ELSE IF ~http.body.isDict THEN Failed     \* data.get raises, caught
  ELSE IF http.body.videos = "missing"
       THEN [ok |-> http.ok, isList |-> TRUE, videos |-> <<>>]
  ELSE IF http.body.videos = "null"
       THEN [ok |-> http.ok, isList |-> FALSE, videos |-> <<>>]
  ELSE [ok |-> http.ok, isList |-> TRUE, videos |-> http.body.list]

\* What one search pass does with each dict _pexels_search can return: the
\* len() of line 209 raises, the response is skipped, or urls are picked.
SearchPass(resp, need) ==
  [raises |-> ~resp.isList,
   ok |-> resp.isList /\ resp.ok,
   urls |-> IF resp.isList /\ resp.ok
            THEN PickVerticalUrls(resp.videos, need) ELSE <<>>]

SearchPasses ==
  [key \in BOOLEAN, need \in 1..Max(1, MaxSegments) |->
     {SearchPass(PexelsSearch(key, http), need) : http \in HttpOutcomes}]

(***************************************************************************)
(* The clip cache.                                                         *)
(***************************************************************************)
\* sha1(url).hexdigest()[:16]: a digest, injective on the URLs of the model.
Digest(url) == (5 * url + 3) % HashSpace
UrlCachePath(url) == <<"px", Digest(url)>>
CachePaths == {UrlCachePath(u) : u \in URLs}

\* A mutant of Exists: the cache is never consulted.
ExistsNever(files, path) == FALSE

\* os.path.exists
Exists(files, path) == files[path] # "absent"

\* already_done
AlreadyDone(script_id) == Exists(finalFile, script_id)

(***************************************************************************)
(* Script text and the duration allocator of make_video.                   *)
(*                                                                         *)
(* A text is a sequence of tokens: a positive number n stands for a run of *)
(* n characters that are not whitespace, Space and Newline for one         *)
(* whitespace character each.  A duration is a rational number of tenths   *)
(* of a second, [n |-> numerator, d |-> denominator].                      *)
(***************************************************************************)
Space == 0
Newline == -1
IsWs(c) == c <= 0
CharLen(c) == IF c > 0 THEN c ELSE 1

RECURSIVE StrLen(_)
StrLen(s) == IF s = <<>> THEN 0 ELSE CharLen(Head(s)) + StrLen(Tail(s))

RECURSIVE LStrip(_)
LStrip(s) == IF s # <<>> /\ IsWs(Head(s)) THEN LStrip(Tail(s)) ELSE s

RECURSIVE RStrip(_)
RStrip(s) ==
  IF s # <<>> /\ IsWs(s[Len(s)]) THEN RStrip(SubSeq(s, 1, Len(s) - 1)) ELSE s

Strip(s) == RStrip(LStrip(s))

\* s[i..j] is matched by \n\s*\n
IsBlankLine(s, i, j) ==
  /\ i < j /\ s[i] = Newline /\ s[j] = Newline
  /\ \A k \in i..j : IsWs(s[k])

\* re.split(r"\n\s*\n", s): the leftmost match, taken greedily, then on.
RECURSIVE ReSplit(_)
ReSplit(s) ==
  LET starts == {i \in 1..Len(s) : \E j \in (i+1)..Len(s) : IsBlankLine(s, i, j)}
  IN IF starts = {} THEN <<s>>
     ELSE LET i == CHOOSE x \in starts : \A y \in starts : x <= y
              j == CHOOSE x \in (i+1)..Len(s) :
                     /\ IsBlankLine(s, i, x)
                     /\ \A y \in (x+1)..Len(s) : ~IsBlankLine(s, i, y)
          IN <<SubSeq(s, 1, i - 1)>> \o ReSplit(SubSeq(s, j + 1, Len(s)))

NonEmpty(p) == p # <<>>

\* _paragraphs
Paragraphs(txt) ==
  LET pieces == ReSplit(Strip(txt))
      paras == SelectSeq([k \in 1..Len(pieces) |-> Strip(pieces[k])], NonEmpty)
  IN IF paras # <<>> THEN paras ELSE <<Strip(txt)>>

Rat(n, d) == [n |-> n, d |-> d]
RatEq(a, b) == a.n * b.d = b.n * a.d
RatLeq(a, b) == a.n * b.d <= b.n * a.d
RatAdd(a, b) == Rat(a.n * b.d + b.n * a.d, a.d * b.d)
Tenths(k) == Rat(k, 1)

RECURSIVE RatSum(_)
RatSum(ds) == IF ds = <<>> THEN Tenths(0) ELSE RatAdd(Head(ds), RatSum(Tail(ds)))

RECURSIVE Sum(_)
Sum(ws) == IF ws = <<>> THEN 0 ELSE Head(ws) + Sum(Tail(ws))

\* total_dur = max(0.1, narration.duration)
TotalDur(duration) == Max(1, duration)

\* weights = [len(p) for p in paras[:count]]
Weights(paras, count) == [k \in 1..Min(count, Len(paras)) |-> StrLen(paras[k])]

\* A mutant of SegDurs: every segment is given an equal share.
SegDursEqualShares(total_dur, weights) ==
  [k \in 1..Len(weights) |-> Rat(total_dur, Len(weights))]

\* wsum = sum(weights) or 1.0; seg_durs = [total_dur * (w/wsum) for w in weights]
SegDurs(total_dur, weights) ==
  LET wsum == IF Sum(weights) = 0 THEN 1 ELSE Sum(weights)
  IN [k \in 1..Len(weights) |-> Rat(total_dur * weights[k], wsum)]

\* A mutant of SafeLoop: the floor is not applied.
SafeLoopNoFloor(duration) == duration

\* _safe_loop: "if duration <= 0.1: duration = 0.1"; the clip it returns
\* lasts duration on either path (vfx.loop or set_duration).
SafeLoop(duration) ==
  IF RatLeq(duration, Tenths(1)) THEN Tenths(1) ELSE duration

\* The allocator's state while it is not running.
AllocIdle ==
  [pc |-> "idle", text |-> <<>>, total_dur |-> 0, nclips |-> 0,
   paras |-> <<>>, seg_durs |-> <<>>, i |-> 0, segs |-> <<>>]

(***************************************************************************)
(* Search phrases and the query deriver, _auto_queries.                    *)
(*                                                                         *)
(* A phrase (a Python str) is a sequence of tokens [w, c]: a maximal run   *)
(* of letters, named w and written in case c ("lower", "title", "upper"),  *)
(* or one character that is not a letter (c = "none").  Hindi and Bengali  *)
(* words are named by a Latin transliteration, "hi_..." and "bn_...".      *)
(***************************************************************************)
Letters(w, c) == [w |-> w, c |-> c]
Blank == [w |-> " ", c |-> "none"]
Hyphen == [w |-> "-", c |-> "none"]
Digit == [w |-> "1", c |-> "none"]
IsLetters(t) == t.c # "none"
IsSpace(t) == t = Blank

\* The literal "a b c" of the source: lower-case words, one blank between.
P(names) ==
  [i \in 1..(2 * Len(names) - 1) |->
     IF i % 2 = 1 THEN Letters(names[(i + 1) \div 2], "lower") ELSE Blank]

\* str.lower(), str.upper()
WithCase(s, c) ==
  [i \in DOMAIN s |-> IF IsLetters(s[i]) THEN [s[i] EXCEPT !.c = c] ELSE s[i]]
StrLower(s) == WithCase(s, "lower")
StrUpper(s) == WithCase(s, "upper")

\* str.strip()
RECURSIVE StrLStrip(_)
StrLStrip(s) ==
  IF s # <<>> /\ IsSpace(Head(s)) THEN StrLStrip(Tail(s)) ELSE s
RECURSIVE StrRStrip(_)
StrRStrip(s) ==
  IF s # <<>> /\ IsSpace(s[Len(s)]) THEN StrRStrip(SubSeq(s, 1, Len(s) - 1))
  ELSE s
StrStrip(s) == StrRStrip(StrLStrip(s))

\* s.split(): the maximal runs of characters that are not whitespace
RECURSIVE StrSplit(_)
StrSplit(s) ==
  IF s = <<>> THEN <<>>
  ELSE IF IsSpace(Head(s)) THEN StrSplit(Tail(s))
  ELSE LET n == CHOOSE k \in 1..Len(s) :
                  /\ \A i \in 1..k : ~IsSpace(s[i])
                  /\ k = Len(s) \/ IsSpace(s[k + 1])
       IN <<SubSeq(s, 1, n)>> \o StrSplit(SubSeq(s, n + 1, Len(s)))

\* sep.join(pieces)
RECURSIVE StrJoin(_, _)
StrJoin(sep, pieces) ==
  IF pieces = <<>> THEN <<>>
  ELSE IF Len(pieces) = 1 THEN pieces[1]
  ELSE pieces[1] \o <<sep>> \o StrJoin(sep, Tail(pieces))

\* channel_code.split("-", 1)[0]
RECURSIVE BeforeHyphen(_)
BeforeHyphen(s) ==
  IF s = <<>> \/ Head(s) = Hyphen THEN <<>>
  ELSE <<Head(s)>> \o BeforeHyphen(Tail(s))

\* The pattern [^\W\d_]+ of _words matches letters but not the vowel signs
\* and viramas of the Indic scripts, so it cuts a word at each of them:
\* the runs it finds in a Hindi or Bengali word of the model, and len() of
\* each run.  A Latin word is one run, as long as its name.
IndicRuns ==
  [hi_shiv |-> <<"hi_sha", "hi_va">>, hi_ram |-> <<"hi_ra", "hi_ma">>,
   hi_agar |-> <<"hi_agar">>, bn_jokhon |-> <<"bn_jokhon">>]
IndicLen ==
  [hi_sha |-> 1, hi_va |-> 1, hi_ra |-> 1, hi_ma |-> 1,
   hi_agar |-> 3, bn_jokhon |-> 3]
LetterRuns(w) == IF w \in DOMAIN IndicRuns THEN IndicRuns[w] ELSE <<w>>
WordLen(w) == IF w \in DOMAIN IndicLen THEN IndicLen[w] ELSE Len(w)

STOP_EN ==
  {"the", "and", "with", "your", "that", "this", "then", "have", "will",
   "just", "like", "very", "from", "into", "you", "for", "are", "was",
   "were", "been", "being", "of", "to", "a", "in", "is", "it", "on", "as",
   "at", "by", "an", "be", "or", "if", "so", "but", "not", "no", "do",
   "does", "did", "can", "could", "should", "would", "may", "might", "our",
   "their", "his", "her", "its", "them", "they", "we", "us", "i", "me"}
\* The entries of STOP_HI and STOP_BN that are one run of letters; the
\* others carry a vowel sign, so no word found by _words equals them.
STOP_HI ==
  {"hi_yah", "hi_jab", "hi_par", "hi_agar", "hi_aur", "hi_vah", "hi_tab",
   "hi_aap", "hi_tak", "hi_ek", "hi_ham"}
STOP_BN == {"bn_jokhon", "bn_ei", "bn_oi"}

TOPIC_MAP ==
  [hi_ganesh |-> P(<<"ganesha", "idol", "temple", "incense", "sunrise">>),
   hi_shiv |-> P(<<"lord", "shiva", "temple", "himalayas", "incense">>),
   hi_krishna |-> P(<<"krishna", "temple", "flute", "peacock">>),
   hi_ram |-> P(<<"ram", "mandir", "temple", "diyas">>),
   hi_tantra |-> P(<<"tantra", "ritual", "candles", "incense", "night">>),
   hi_bhoot |-> P(<<"haunted", "house", "night", "fog", "forest">>),
   hi_naukri |-> P(<<"interview", "office", "resume", "corporate">>),
   hi_resume |-> P(<<"resume", "office", "laptop", "interview">>),
   hi_dhyan |-> P(<<"meditation", "temple", "candles", "incense">>),
   bn_ganesh |-> P(<<"ganesha", "idol", "temple", "incense">>),
   bn_shiv |-> P(<<"lord", "shiva", "temple", "himalayas">>),
   bn_krishna |-> P(<<"krishna", "temple", "flute">>),
   bn_tantra |-> P(<<"tantra", "ritual", "candles", "night">>),
   bn_bhoot |-> P(<<"haunted", "house", "fog", "forest", "night">>),
   bn_chakri |-> P(<<"interview", "office", "resume", "corporate">>),
   bn_resume |-> P(<<"resume", "office", "laptop", "interview">>),
   bn_dhyan |-> P(<<"meditation", "temple", "candles">>)]

\* A family code as _family_code returns it, in upper case.
Fam(name) == <<Letters(name, "upper")>>
Families == {Fam("hm"), Fam("ht"), Fam("mj")}
FAMILY_DEFAULT ==
  [f \in Families |->
     CASE f = Fam("hm") -> P(<<"hindu", "temple", "sunrise", "incense", "clouds">>)
       [] f = Fam("ht") -> P(<<"night", "forest", "fog", "moonlight", "candle", "ritual">>)
       [] f = Fam("mj") -> P(<<"office", "laptop", "city", "skyline", "night", "bokeh">>)]
\* A mutant of GENERIC_FALLBACKS: the list is left empty.
NoFallbacks == <<>>

GENERIC_FALLBACKS ==
  <<P(<<"nature", "landscape", "sunrise", "mist">>),
    P(<<"abstract", "motion", "background", "particles">>),
    P(<<"city", "bokeh", "lights", "night">>)>>
Anchors(fam) ==
  CASE fam = Fam("hm") -> <<"temple", "incense", "sunrise", "saffron">>
    [] fam = Fam("ht") -> <<"night", "forest", "fog", "moonlight">>
    [] fam = Fam("mj") -> <<"office", "city", "laptop", "skyline">>
    [] OTHER -> <<"cinematic", "portrait">>

\* _words: the runs of letters of txt.lower(), in order
RECURSIVE LetterRunsOf(_)
LetterRunsOf(s) ==
  IF s = <<>> THEN <<>>
  ELSE (IF IsLetters(Head(s)) THEN LetterRuns(Head(s).w) ELSE <<>>)
         \o LetterRunsOf(Tail(s))
Words(txt) == LetterRunsOf(StrLower(txt))

\* The keys of freq in insertion order: each kept word, once, at its first
\* occurrence.
RECURSIVE FirstOccurrences(_, _)
FirstOccurrences(ws, seen) ==
  IF ws = <<>> THEN <<>>
  ELSE IF Head(ws) \in seen THEN FirstOccurrences(Tail(ws), seen)
  ELSE <<Head(ws)>> \o FirstOccurrences(Tail(ws), seen \cup {Head(ws)})
Freq(ws, w) == Cardinality({i \in DOMAIN ws : ws[i] = w})

\* The sort key (-freq, -len): a sorts strictly before b.
KeywordBefore(a, b, ws) ==
  \/ Freq(ws, a) > Freq(ws, b)
  \/ Freq(ws, a) = Freq(ws, b) /\ WordLen(a) > WordLen(b)

\* sorted() is stable: an item goes in front of the first one it sorts
\* strictly before, and behind every earlier item of equal key.
RECURSIVE InsertKeyword(_, _, _)
InsertKeyword(w, sorted, ws) ==
  IF sorted = <<>> THEN <<w>>
  ELSE IF KeywordBefore(w, Head(sorted), ws) THEN <<w>> \o sorted
  ELSE <<Head(sorted)>> \o InsertKeyword(w, Tail(sorted), ws)
RECURSIVE SortKeywords(_, _)
SortKeywords(items, ws) ==
  IF items = <<>> THEN <<>>
  ELSE InsertKeyword(items[Len(items)],
                     SortKeywords(SubSeq(items, 1, Len(items) - 1), ws), ws)

TopKeywords(txt, stop, k) ==
  LET ws == SelectSeq(Words(txt), LAMBDA w : w \notin stop /\ WordLen(w) >= 3)
      sorted == SortKeywords(FirstOccurrences(ws, {}), ws)
  IN SubSeq(sorted, 1, Min(k, Len(sorted)))

FamilyCode(channel_code) ==
  IF channel_code = <<>> THEN <<>> ELSE StrUpper(BeforeHyphen(channel_code))

\* A metadata mapping, by the three fields _auto_queries reads.  Each read
\* is "meta and meta.get(f)" or "(meta or {}).get(f, '')", so None, {} and
\* a mapping whose fields are absent behave as the one whose fields are "".
NoMeta == [image_query |-> <<>>, channel_code |-> <<>>, lang |-> <<>>]

\* A mutant of ExplicitQueries: the override is lowered before it is queued.
ExplicitQueriesLowered(meta) ==
  IF meta.image_query # <<>>
  THEN <<StrLower(StrStrip(meta.image_query))>> ELSE <<>>

\* lines 113-114: the explicit image_query
ExplicitQueries(meta) ==
  IF meta.image_query # <<>> THEN <<StrStrip(meta.image_query)>> ELSE <<>>

\* lines 116-118: the family default
FamilyQueries(meta) ==
  LET fam == FamilyCode(meta.channel_code)
  IN IF fam \in DOMAIN FAMILY_DEFAULT THEN <<FAMILY_DEFAULT[fam]>> ELSE <<>>

\* lines 121-123: a phrase for each word of the text that is a topic key
RECURSIVE TopicQueries(_)
TopicQueries(ws) ==
  IF ws = <<>> THEN <<>>
  ELSE (IF Head(ws) \in DOMAIN TOPIC_MAP THEN <<TOPIC_MAP[Head(ws)]>> ELSE <<>>)
         \o TopicQueries(Tail(ws))

\* lines 126-131: the stopwords of the language
StopWords(meta) ==
  LET lang == StrLower(meta.lang)
  IN IF lang = <<Letters("hi", "lower")>> THEN STOP_HI \cup STOP_EN
     ELSE IF lang = <<Letters("bn", "lower")>> THEN STOP_BN \cup STOP_EN
     ELSE STOP_EN

\* lines 134-143: up to three "anchor keyword" queries
KeywordQueries(script_text, meta) ==
  LET kws == TopKeywords(script_text, StopWords(meta), 6)
      anchors == Anchors(FamilyCode(meta.channel_code))
  IN [i \in 1..Min(3, Len(kws)) |->
        <<Letters(anchors[((i - 1) % Len(anchors)) + 1], "lower"), Blank,
          Letters(kws[i], "lower")>>]

\* line 151: s2 = " ".join(s.split())
Normalised(s) == StrJoin(Blank, StrSplit(s))

\* The deriver's state while it is not running.
QueryIdle ==
  [pc |-> "idle", script_text |-> <<>>, meta |-> NoMeta,
   q |-> <<>>, i |-> 0, final |-> <<>>]

(***************************************************************************)
(* The retry loops of _download (video.py) and _speak_chunk (tts.py).      *)
(***************************************************************************)
SpeakRetries == 3    \* _speak_chunk(text, lang, retries=3, ...)
SpeakBackoff == 2    \* _speak_chunk(..., backoff=2.0)

\* range(retries + 1) of _download, range(1, retries + 1) of _speak_chunk
FirstAttempt(fn) == IF fn = "download" THEN 0 ELSE 1
LastAttempt(fn, retries) == retries

\* A mutant of SleepTime: the same pause before every attempt.
SleepTimeFlat(fn, k, backoff) == IF fn = "download" THEN 1 ELSE backoff

\* time.sleep(1.0 + attempt), time.sleep(backoff * attempt), at attempt k
SleepTime(fn, k, backoff) ==
  IF fn = "download" THEN 1 + k ELSE backoff * k

\* What can go wrong in one attempt: the request or the stream of
\* _download, gTTS(...).save or AudioSegment.from_mp3 of _speak_chunk.
FailureKinds(fn) ==
  IF fn = "download" THEN {"request", "stream"} ELSE {"save", "from_mp3"}

\* The loops' state while none is running.
RetryIdle ==
  [fn |-> "none", retries |-> 0, backoff |-> 0, pc |-> "idle", attempt |-> 0,
   tries |-> <<>>, sleeps |-> <<>>]

(***************************************************************************)
(* make_video's local decisions.                                           *)
(***************************************************************************)
Solid == 0           \* the ColorClip handle
Footage == 1         \* a VideoFileClip handle, after _verticalize

\* need=max(1, need), need = int(os.getenv("SEGMENTS", "3"))
Need == Max(1, segments)

\* A mutant of NeedsFallback: the solid replaces any short clip list.
NeedsFallbackWhenShort(clips) == Len(clips) < Need

\* "if not vclips"
NeedsFallback(clips) == Len(clips) = 0

\* count = min(len(vclips), max(1, len(paras)))
SegmentCount(nclips, nparas) == Min(nclips, Max(1, nparas))

SolidCount(clips) == Cardinality({i \in 1..Len(clips) : clips[i] = Solid})

\* The metadata parse_script returns: the front-matter, with lang set to
\* "en" and channel_code to the parent directory where it has none.
PlainMeta ==
  [image_query |-> <<>>, channel_code |-> <<>>,
   lang |-> <<Letters("en", "lower")>>]
OverrideMeta ==
  [image_query |-> P(<<"desert", "dunes">>),
   channel_code |-> <<Letters("hm", "upper"), Hyphen, Digit>>,
   lang |-> <<Letters("hi", "lower")>>]
ScriptMetas == {PlainMeta, OverrideMeta}

\* final_video = make_video(audio_path, body): the meta parameter is left
\* to its default, None.
MakeVideoMeta(meta) == NoMeta

\* meta and the query list are read while the queries are derived and
\* searched, and not after.
MetaKept ==
  /\ scriptMeta' = IF pc' = "search" THEN scriptMeta ELSE NoMeta
  /\ queryMeta' = IF pc' = "search" THEN queryMeta ELSE NoMeta

(***************************************************************************)
(* The batch driver and make_video, step by step.                          *)
(***************************************************************************)
Init ==
  /\ apiKey \in BOOLEAN
  /\ segments \in {0} \cup 2..MaxSegments    \* max(1, need): 1 acts as 0
  /\ limit \in 0..1
  /\ audioFile = FALSE
  /\ finalFile = [i \in Ids |-> "absent"]
  /\ cacheFile = [p \in CachePaths |-> "absent"]
  /\ pc = "loop" /\ run = 1 /\ idx = 1 /\ produced = 0
  /\ visited = {} /\ failed = 0 /\ sid = 0
  /\ nq = 0 /\ qi = 0 /\ collected = <<>> /\ ui = 0 /\ attempt = 0
  /\ cacheHit = FALSE /\ vclips = <<>> /\ opened = 0 /\ segs = 0
  /\ renderedOK = {} /\ downloadedOK = {}
  /\ raisedIn = "none" /\ mvResult = "none"
  /\ openHandles = {}
  /\ scriptMeta = NoMeta /\ queryMeta = NoMeta
  /\ usedIds = {}
  /\ alloc = AllocIdle
  /\ query = QueryIdle
  /\ retry = RetryIdle
  /\ pick = PickIdle
  /\ chunker = ChunkIdle

\* "for url in urls" has gone past urls[i]: the element is not read again.
Passed(urls, i) == [urls EXCEPT ![i] = NoLink]

\* make_video's locals go out of scope when the call ends.
ResetLocals ==
  /\ nq' = 0 /\ qi' = 0 /\ collected' = <<>> /\ ui' = 0 /\ attempt' = 0
  /\ cacheHit' = FALSE /\ vclips' = <<>> /\ opened' = 0 /\ segs' = 0

\* An exception raised inside make_video: run_pipeline's except clause
\* prints the failure and the loop goes on.  make_video has no handler of
\* its own: what it had opened stays open.
Caught(step) ==
  /\ pc' = "after"
  /\ failed' = (IF failed = 0 THEN idx ELSE failed)
  /\ raisedIn' = step
  /\ mvResult' = "raised"
  /\ ResetLocals

\* An exception raised outside the try block leaves run_pipeline.
Escaped(step) ==
  /\ pc' = "crashed"
  /\ raisedIn' = step

\* A later invocation of the program over the same output directories.
StartRun ==
  /\ pc \in {"finished", "crashed"}
  /\ run < MaxRuns
  /\ run' = run + 1
  /\ pc' = "loop" /\ idx' = 1 /\ produced' = 0
  /\ visited' = {} /\ failed' = 0 /\ sid' = 0
  /\ raisedIn' = "none" /\ mvResult' = "none"
  /\ audioFile' = FALSE
  /\ UNCHANGED <<envVars, finalFile, cacheFile, mvVars, renderedOK, downloadedOK>>
  /\ UNCHANGED openHandles
  /\ scriptMeta' = NoMeta /\ queryMeta' = NoMeta
  /\ usedIds' = {}
  /\ UNCHANGED pureVars

\* for idx, path in enumerate(files): the list is exhausted.
LoopEnd ==
  /\ pc = "loop" /\ idx > NumScripts
  /\ pc' = "finished"
  /\ UNCHANGED <<envVars, fsVars, drvVars, mvVars, histVars>>
  /\ UNCHANGED openHandles
  /\ UNCHANGED metaVars
  /\ UNCHANGED usedIds
  /\ UNCHANGED pureVars

\* parse_script, safe_id, the empty-body and already_done tests.
ParseScript ==
  /\ pc = "loop" /\ idx <= NumScripts
  /\ visited' = visited \cup {idx}
  /\ \E outcome \in {"raises", "empty", "body"}, script_id \in Ids :
       CASE outcome = "raises" ->
              /\ Escaped("parse")
              /\ UNCHANGED <<idx, sid, mvResult, scriptMeta>>
         [] outcome = "empty" ->
              /\ idx' = idx + 1 /\ sid' = 0
              /\ UNCHANGED <<pc, raisedIn, mvResult, scriptMeta>>
         [] outcome = "body" ->
              /\ IF AlreadyDone(script_id)
                 THEN /\ idx' = idx + 1 /\ pc' = pc /\ sid' = script_id
                      /\ UNCHANGED scriptMeta
                 ELSE /\ idx' = idx /\ pc' = "tts" /\ sid' = script_id
                      /\ scriptMeta' \in ScriptMetas
              /\ UNCHANGED <<raisedIn, mvResult>>
  /\ UNCHANGED <<envVars, fsVars, run, produced, failed, mvVars,
                 renderedOK, downloadedOK>>
  /\ UNCHANGED openHandles
  /\ UNCHANGED queryMeta
  /\ UNCHANGED usedIds
  /\ UNCHANGED pureVars

\* text_to_speech(body, audio_path): called outside the try block.
TextToSpeech ==
  /\ pc = "tts"
  /\ \E outcome \in {"saved", "speak_raises", "export_raises"} :
       CASE outcome = "saved" ->
              /\ audioFile' = TRUE
              /\ usedIds' = usedIds \cup {sid}
              /\ pc' = "mv_start"
              /\ UNCHANGED <<raisedIn, sid, metaVars>>
         [] outcome \in {"speak_raises", "export_raises"} ->
              \* no script is in hand any more; what export may have
              \* written is rewritten before it is read
              /\ Escaped("tts")
              /\ sid' = 0 /\ scriptMeta' = NoMeta
              /\ UNCHANGED <<audioFile, usedIds, queryMeta>>
  /\ UNCHANGED <<envVars, finalFile, cacheFile, run, idx, produced, visited,
                 failed, mvVars, renderedOK, downloadedOK, mvResult>>
  /\ UNCHANGED openHandles
  /\ UNCHANGED pureVars

\* make_video: the audio test, AudioFileClip, _auto_queries.
MakeVideoStart ==
  /\ pc = "mv_start"
  /\ IF ~audioFile
     THEN /\ Caught("audio_missing") /\ UNCHANGED openHandles
          /\ scriptMeta' = NoMeta /\ queryMeta' = NoMeta
     ELSE \E audioOpens \in BOOLEAN :
            IF ~audioOpens
            THEN /\ Caught("audio_open") /\ UNCHANGED openHandles
                 /\ scriptMeta' = NoMeta /\ queryMeta' = NoMeta
            ELSE /\ openHandles' = {"narration"}
                 /\ queryMeta' = MakeVideoMeta(scriptMeta)
                 /\ UNCHANGED scriptMeta
                 /\ nq' \in MinQueries..MaxQueries
                 /\ qi' = 1 /\ pc' = "search" /\ mvResult' = "running"
                 /\ UNCHANGED <<collected, ui, attempt, cacheHit, vclips,
                                opened, segs, failed, raisedIn>>
  /\ UNCHANGED <<envVars, fsVars, run, idx, produced, visited, sid,
                 renderedOK, downloadedOK>>
  /\ UNCHANGED usedIds
  /\ UNCHANGED pureVars

\* _pexels_pick_multi returns (its locals are gone): make_video starts on
\* the urls.
BeginDownloads ==
  /\ pc' = "download"
  /\ ui' = 1
  /\ nq' = 0 /\ qi' = 0

\* One pass of "for q in queries".
PexelsQuery ==
  /\ pc = "search" /\ qi <= nq
  /\ \E resp \in SearchPasses[apiKey, Need - Len(collected)] :
       LET got == collected \o resp.urls
       IN IF resp.raises       \* len(resp['videos']) raises TypeError
          THEN Caught("fetch")
          ELSE /\ IF ~resp.ok
                  THEN qi' = qi + 1 /\ UNCHANGED <<pc, nq, collected, ui>>
                  ELSE /\ collected' = got
                       /\ IF Len(got) >= Need
                          THEN BeginDownloads
                          ELSE qi' = qi + 1 /\ UNCHANGED <<pc, nq, ui>>
               /\ UNCHANGED <<attempt, cacheHit, vclips, opened, segs,
                              failed, raisedIn, mvResult>>
  /\ UNCHANGED <<envVars, fsVars, run, idx, produced, visited, sid,
                 renderedOK, downloadedOK>>
  /\ UNCHANGED openHandles
  /\ MetaKept
  /\ UNCHANGED usedIds
  /\ UNCHANGED pureVars

\* The query list is exhausted: "if len(collected) < need".
QueriesExhausted ==
  /\ pc = "search" /\ qi > nq
  /\ IF Len(collected) < Need
     THEN pc' = "safety" /\ qi' = 1 /\ nq' = 0 /\ UNCHANGED ui
     ELSE BeginDownloads
  /\ UNCHANGED <<envVars, fsVars, drvVars, collected, attempt, cacheHit,
                 vclips, opened, segs, histVars>>
  /\ UNCHANGED openHandles
  /\ MetaKept
  /\ UNCHANGED usedIds
  /\ UNCHANGED pureVars

\* A mutant of PexelsSafety: the loop goes on to the next safety query
\* whatever it has collected.
PexelsSafetyNoBreak ==
  /\ pc = "safety" /\ qi <= NumSafety
  /\ \E resp \in SearchPasses[apiKey, Need - Len(collected)] :
       LET got == collected \o resp.urls
       IN IF resp.raises
          THEN Caught("fetch")
          ELSE /\ IF ~resp.ok
                  THEN qi' = qi + 1 /\ UNCHANGED <<pc, nq, collected, ui>>
                  ELSE /\ collected' = got
                       /\ qi' = qi + 1 /\ UNCHANGED <<pc, nq, ui>>
               /\ UNCHANGED <<attempt, cacheHit, vclips, opened, segs,
                              failed, raisedIn, mvResult>>
  /\ UNCHANGED <<envVars, fsVars, run, idx, produced, visited, sid,
                 renderedOK, downloadedOK>>
  /\ UNCHANGED openHandles
  /\ MetaKept
  /\ UNCHANGED usedIds
  /\ UNCHANGED pureVars

\* One pass of the safety loop.
PexelsSafety ==
  /\ pc = "safety" /\ qi <= NumSafety
  /\ \E resp \in SearchPasses[apiKey, Need - Len(collected)] :
       LET got == collected \o resp.urls
       IN IF resp.raises
          THEN Caught("fetch")
          ELSE /\ IF ~resp.ok
                  THEN qi' = qi + 1 /\ UNCHANGED <<pc, nq, collected, ui>>
                  ELSE /\ collected' = got
                       /\ IF Len(got) >= Need
                          THEN BeginDownloads
                          ELSE qi' = qi + 1 /\ UNCHANGED <<pc, nq, ui>>
               /\ UNCHANGED <<attempt, cacheHit, vclips, opened, segs,
                              failed, raisedIn, mvResult>>
  /\ UNCHANGED <<envVars, fsVars, run, idx, produced, visited, sid,
                 renderedOK, downloadedOK>>
  /\ UNCHANGED openHandles
  /\ MetaKept
  /\ UNCHANGED usedIds
  /\ UNCHANGED pureVars

\* The safety list is exhausted: return collected.
SafetyExhausted ==
  /\ pc = "safety" /\ qi > NumSafety
  /\ BeginDownloads
  /\ UNCHANGED <<envVars, fsVars, drvVars, collected, attempt, cacheHit,
                 vclips, opened, segs, histVars>>
  /\ UNCHANGED openHandles
  /\ MetaKept
  /\ UNCHANGED usedIds
  /\ UNCHANGED pureVars

\* "for url in urls": the list is exhausted; urls is not read again.
DownloadsDone ==
  /\ pc = "download" /\ ui > Len(collected)
  /\ pc' = "compose"
  /\ collected' = <<>> /\ ui' = 0
  /\ UNCHANGED <<envVars, fsVars, drvVars, nq, qi, attempt, cacheHit,
                 vclips, opened, segs, histVars>>
  /\ UNCHANGED openHandles
  /\ UNCHANGED metaVars
  /\ UNCHANGED usedIds
  /\ UNCHANGED pureVars

\* dest = _url_cache_path(url); if not os.path.exists(dest): download.
CacheCheck ==
  /\ pc = "download" /\ ui <= Len(collected)
  /\ cacheHit' = Exists(cacheFile, UrlCachePath(collected[ui]))
  /\ IF cacheHit'
     THEN pc' = "open"
     ELSE pc' = "dl"
  /\ attempt' = 0
  /\ UNCHANGED <<envVars, fsVars, drvVars, nq, qi, collected, ui,
                 vclips, opened, segs, histVars>>
  /\ UNCHANGED openHandles
  /\ UNCHANGED metaVars
  /\ UNCHANGED usedIds
  /\ UNCHANGED pureVars

\* One attempt of _download.  A failure before open(dest, "wb") leaves the
\* path as it was; a failure after it leaves what was written so far.
DownloadAttempt ==
  /\ pc = "dl"
  /\ LET url == collected[ui]
         dest == UrlCachePath(url)
     IN \E outcome \in {"written", "request_raises", "stream_raises"} :
          /\ CASE outcome = "written" ->
                    /\ cacheFile' = [cacheFile EXCEPT ![dest] = "complete"]
                    /\ downloadedOK' = downloadedOK \cup {url}
               [] outcome = "request_raises" ->
                    UNCHANGED <<cacheFile, downloadedOK>>
               [] outcome = "stream_raises" ->
                    /\ cacheFile' = [cacheFile EXCEPT ![dest] = "partial"]
                    /\ UNCHANGED downloadedOK
          /\ IF outcome = "written"                  \* return True
             THEN /\ pc' = "open" /\ ui' = ui /\ attempt' = 0
                  /\ UNCHANGED collected
             ELSE IF attempt = Retries                \* return False: continue
             THEN /\ pc' = "download" /\ ui' = ui + 1 /\ attempt' = 0
                  /\ collected' = Passed(collected, ui)
             ELSE /\ pc' = pc /\ ui' = ui /\ attempt' = attempt + 1
                  /\ UNCHANGED collected
  /\ UNCHANGED <<envVars, audioFile, finalFile, drvVars, nq, qi,
                 cacheHit, vclips, opened, segs, renderedOK, raisedIn, mvResult>>
  /\ UNCHANGED openHandles
  /\ UNCHANGED metaVars
  /\ UNCHANGED usedIds
  /\ UNCHANGED pureVars

\* c = VideoFileClip(dest); vclips.append(_verticalize(c)), inside try.
OpenClip ==
  /\ pc = "open"
  /\ \E opens \in BOOLEAN :
       IF opens
       THEN /\ vclips' = Append(vclips, Footage) /\ opened' = opened + 1
            /\ openHandles' = openHandles \cup {"clip"}
       ELSE UNCHANGED <<vclips, opened, openHandles>>
  /\ ui' = ui + 1
  /\ collected' = Passed(collected, ui)
  /\ pc' = "download"
  /\ cacheHit' = FALSE
  /\ UNCHANGED <<envVars, fsVars, drvVars, nq, qi, attempt,
                 segs, histVars>>
  /\ UNCHANGED metaVars
  /\ UNCHANGED usedIds
  /\ UNCHANGED pureVars

\* The fallback clip, the duration allocation and the segments; segs[0] of
\* an empty list raises IndexError.
Compose ==
  /\ pc = "compose"
  /\ LET clips == IF NeedsFallback(vclips) THEN <<Solid>> ELSE vclips
     IN \E nparas \in 1..MaxParas :
          LET count == SegmentCount(Len(clips), nparas)
          IN IF count = 0
             THEN Caught("compose") /\ UNCHANGED openHandles
             ELSE /\ openHandles' = openHandles \cup {"video"}
                  /\ vclips' = clips
                  /\ segs' = count
                  /\ pc' = "render"
                  /\ UNCHANGED <<nq, qi, collected, ui, attempt, cacheHit, opened,
                                 failed, raisedIn, mvResult>>
  /\ UNCHANGED <<envVars, fsVars, run, idx, produced, visited, sid,
                 renderedOK, downloadedOK>>
  /\ UNCHANGED metaVars
  /\ UNCHANGED usedIds
  /\ UNCHANGED pureVars

\* video.write_videofile(out_path, ...): the encoder is started on the final
\* path itself, unless the call fails before that (temp audio, no encoder).
RenderBegin ==
  /\ pc = "render"
  /\ \E starts \in BOOLEAN :
       IF starts
       THEN /\ finalFile' = [finalFile EXCEPT ![sid] = "partial"]
            /\ pc' = "encoding"
            /\ UNCHANGED <<mvVars, failed, raisedIn, mvResult>>
       ELSE /\ Caught("render")
            /\ UNCHANGED finalFile
  /\ UNCHANGED <<envVars, audioFile, cacheFile, run, idx, produced, visited, sid,
                 renderedOK, downloadedOK>>
  /\ UNCHANGED openHandles
  /\ UNCHANGED metaVars
  /\ UNCHANGED usedIds
  /\ UNCHANGED pureVars

\* The encoder runs to the end, or fails with frames already written.
RenderEncode ==
  /\ pc = "encoding"
  /\ \E completes \in BOOLEAN :
       IF completes
       THEN /\ finalFile' = [finalFile EXCEPT ![sid] = "complete"]
            /\ renderedOK' = renderedOK \cup {sid}
            /\ pc' = "cleanup"
            /\ UNCHANGED <<mvVars, failed, raisedIn, mvResult>>
       ELSE /\ Caught("encode")
            /\ UNCHANGED <<finalFile, renderedOK>>
  /\ UNCHANGED <<envVars, audioFile, cacheFile, run, idx, produced, visited, sid,
                 downloadedOK>>
  /\ UNCHANGED openHandles
  /\ UNCHANGED metaVars
  /\ UNCHANGED usedIds
  /\ UNCHANGED pureVars

\* Cleanup closes the video, the narration and every clip; return out_path;
\* run_pipeline counts the video.
Cleanup ==
  /\ pc = "cleanup"
  /\ mvResult' = "returned"
  /\ produced' = produced + 1
  /\ pc' = "after"
  /\ ResetLocals
  /\ UNCHANGED <<envVars, fsVars, run, idx, visited, failed, sid,
                 renderedOK, downloadedOK, raisedIn>>
  /\ openHandles' = {}
  /\ UNCHANGED metaVars
  /\ UNCHANGED usedIds
  /\ UNCHANGED pureVars

\* "if limit and produced >= limit: break", else the next script.
AfterScript ==
  /\ pc = "after"
  /\ IF limit # 0 /\ produced >= limit
     THEN pc' = "finished" /\ idx' = idx
     ELSE pc' = "loop" /\ idx' = idx + 1
  /\ raisedIn' = "none" /\ mvResult' = "none" /\ sid' = 0
  /\ audioFile' = FALSE
  /\ UNCHANGED <<envVars, finalFile, cacheFile, run, produced, visited, failed, mvVars,
                 renderedOK, downloadedOK>>
  /\ openHandles' = {}
  /\ UNCHANGED metaVars
  /\ UNCHANGED usedIds
  /\ UNCHANGED pureVars

Next ==
  \/ StartRun
  \/ LoopEnd
  \/ ParseScript
  \/ TextToSpeech
  \/ MakeVideoStart
  \/ PexelsQuery
  \/ QueriesExhausted
  \/ PexelsSafety
  \/ SafetyExhausted
  \/ DownloadsDone
  \/ CacheCheck
  \/ DownloadAttempt
  \/ OpenClip
  \/ Compose
  \/ RenderBegin
  \/ RenderEncode
  \/ Cleanup
  \/ AfterScript

Spec == Init /\ [][Next]_vars

(***************************************************************************)
(* SpecAlloc: the allocation and composition steps of make_video (lines    *)
(* 286-302) applied to every text, narration duration and clip count of    *)
(* the bounds.                                                             *)
(***************************************************************************)
MaxText == 5         \* tokens of a script text
MaxTenths == 3       \* narration durations 0.0 s .. 0.3 s, in tenths
LongTenths == 300    \* and one long narration, 30 s
MaxClips == 3        \* len(vclips)
WordRuns == {1, 10, 20}
Texts == SeqsUpTo(WordRuns \cup {Space, Newline}, MaxText)
Durations == (0..MaxTenths) \cup {LongTenths}

DriverIdle ==
  /\ apiKey = FALSE /\ segments = 0 /\ limit = 0
  /\ audioFile = FALSE
  /\ finalFile = [i \in Ids |-> "absent"]
  /\ cacheFile = [p \in CachePaths |-> "absent"]
  /\ pc = "idle" /\ run = 0 /\ idx = 0 /\ produced = 0
  /\ visited = {} /\ failed = 0 /\ sid = 0
  /\ nq = 0 /\ qi = 0 /\ collected = <<>> /\ ui = 0 /\ attempt = 0
  /\ cacheHit = FALSE /\ vclips = <<>> /\ opened = 0 /\ segs = 0
  /\ renderedOK = {} /\ downloadedOK = {}
  /\ raisedIn = "none" /\ mvResult = "none"
  /\ openHandles = {}
  /\ scriptMeta = NoMeta /\ queryMeta = NoMeta
  /\ usedIds = {}

AllocInit ==
  /\ DriverIdle
  /\ query = QueryIdle
  /\ retry = RetryIdle
  /\ pick = PickIdle
  /\ chunker = ChunkIdle
  /\ \E txt \in Texts, duration \in Durations, n \in 1..MaxClips :
       alloc = [AllocIdle EXCEPT !.pc = "allocate", !.text = txt,
                                 !.total_dur = TotalDur(duration), !.nclips = n]

\* paras, count, weights, seg_durs
Allocate ==
  /\ alloc.pc = "allocate"
  /\ LET paras == Paragraphs(alloc.text)
         count == SegmentCount(alloc.nclips, Len(paras))
     IN alloc' = [alloc EXCEPT !.pc = "segments", !.paras = paras, !.i = 1,
                    !.seg_durs = SegDurs(alloc.total_dur, Weights(paras, count))]
  /\ UNCHANGED <<driverVars, query, retry, pick, chunker>>

\* One pass of "for i in range(count)": seg = _safe_loop(base, seg_durs[i]).
PlaceSegment ==
  /\ alloc.pc = "segments"
  /\ alloc.i <= Len(alloc.seg_durs)
  /\ alloc' = [alloc EXCEPT !.i = alloc.i + 1,
                 !.segs = Append(alloc.segs, SafeLoop(alloc.seg_durs[alloc.i]))]
  /\ UNCHANGED <<driverVars, query, retry, pick, chunker>>

\* The loop is over: the segments go to concatenate_videoclips.
Concatenate ==
  /\ alloc.pc = "segments"
  /\ alloc.i > Len(alloc.seg_durs)
  /\ alloc' = [alloc EXCEPT !.pc = "timeline"]
  /\ UNCHANGED <<driverVars, query, retry, pick, chunker>>

AllocNext ==
  \/ Allocate
  \/ PlaceSegment
  \/ Concatenate

SpecAlloc == AllocInit /\ [][AllocNext]_vars

(***************************************************************************)
(* SpecQueries: _auto_queries applied to every script text and metadata of *)
(* the bounds, section by section.                                         *)
(***************************************************************************)
MaxWords == 2        \* words of a script text
TextWords ==
  {Letters("temple", "lower"), Letters("temple", "title"),
   Letters("city", "lower"), Letters("an", "lower"), Letters("the", "lower"),
   Letters("hi_shiv", "lower"), Letters("hi_agar", "lower")}
\* The words of a text stand one blank apart.
ScriptTexts == {StrJoin(Blank, [i \in DOMAIN ws |-> <<ws[i]>>]) :
                  ws \in SeqsUpTo(TextWords, MaxWords)}

\* A phrase written with a blank in front, two between words, one behind.
RECURSIVE Widened(_)
Widened(s) ==
  IF s = <<>> THEN <<>>
  ELSE (IF IsSpace(Head(s)) THEN <<Blank, Blank>> ELSE <<Head(s)>>)
         \o Widened(Tail(s))
Padded(s) == <<Blank>> \o Widened(s) \o <<Blank>>
QueryPhrases ==
  {P(<<"desert", "dunes">>), P(<<"cinematic", "temple">>),
   P(<<"hindu", "temple", "sunrise", "incense", "clouds">>),
   P(<<"city", "bokeh", "lights", "night">>)}
ImageQueries ==
  {<<>>, <<Blank>>}
    \cup {WithCase(p, c) : p \in QueryPhrases, c \in {"lower", "title"}}
    \cup {Padded(WithCase(p, c)) : p \in QueryPhrases, c \in {"lower", "title"}}
ChannelCodes ==
  {<<>>, <<Letters("hm", "lower"), Hyphen, Digit>>, <<Letters("ht", "upper")>>,
   <<Letters("xx", "lower"), Hyphen, Letters("mj", "lower")>>}
Langs == {<<>>, <<Letters("hi", "upper")>>, <<Letters("bn", "lower")>>}
Metas == [image_query : ImageQueries, channel_code : ChannelCodes, lang : Langs]

QueriesInit ==
  /\ DriverIdle
  /\ alloc = AllocIdle
  /\ retry = RetryIdle
  /\ pick = PickIdle
  /\ chunker = ChunkIdle
  /\ \E txt \in ScriptTexts, m \in Metas :
       query = [QueryIdle EXCEPT !.pc = "explicit", !.script_text = txt,
                                 !.meta = m]

\* if meta and meta.get("image_query"): q.append(...)
AppendExplicit ==
  /\ query.pc = "explicit"
  /\ query' = [query EXCEPT !.pc = "family",
                             !.q = query.q \o ExplicitQueries(query.meta)]
  /\ UNCHANGED <<driverVars, alloc, retry, pick, chunker>>

\* if fam in FAMILY_DEFAULT: q.append(FAMILY_DEFAULT[fam])
AppendFamily ==
  /\ query.pc = "family"
  /\ query' = [query EXCEPT !.pc = "topics",
                             !.q = query.q \o FamilyQueries(query.meta)]
  /\ UNCHANGED <<driverVars, alloc, retry, pick, chunker>>

\* for w in _words(script_text): if w in TOPIC_MAP: q.append(TOPIC_MAP[w])
AppendTopics ==
  /\ query.pc = "topics"
  /\ query' = [query EXCEPT !.pc = "keywords",
                  !.q = query.q \o TopicQueries(Words(query.script_text))]
  /\ UNCHANGED <<driverVars, alloc, retry, pick, chunker>>

\* kws = _top_keywords(script_text, stop, k=6) and the anchored queries
AppendKeywords ==
  /\ query.pc = "keywords"
  /\ query' = [query EXCEPT !.pc = "generic",
                  !.q = query.q \o KeywordQueries(query.script_text, query.meta)]
  /\ UNCHANGED <<driverVars, alloc, retry, pick, chunker>>

\* q.extend(GENERIC_FALLBACKS); seen = set(); final = []
AppendGeneric ==
  /\ query.pc = "generic"
  /\ query' = [query EXCEPT !.pc = "dedupe", !.i = 1,
                             !.q = query.q \o GENERIC_FALLBACKS]
  /\ UNCHANGED <<driverVars, alloc, retry, pick, chunker>>

\* One pass of "for s in q": seen is the set of the entries of final.
Dedupe ==
  /\ query.pc = "dedupe"
  /\ query.i <= Len(query.q)
  /\ LET s2 == Normalised(query.q[query.i])
         seen == {query.final[k] : k \in DOMAIN query.final}
     IN query' = [query EXCEPT !.i = query.i + 1,
                    !.final = IF s2 # <<>> /\ s2 \notin seen
                              THEN Append(query.final, s2) ELSE query.final]
  /\ UNCHANGED <<driverVars, alloc, retry, pick, chunker>>

ReturnFinal ==
  /\ query.pc = "dedupe"
  /\ query.i > Len(query.q)
  /\ query' = [query EXCEPT !.pc = "returned"]
  /\ UNCHANGED <<driverVars, alloc, retry, pick, chunker>>

QueriesNext ==
  \/ AppendExplicit
  \/ AppendFamily
  \/ AppendTopics
  \/ AppendKeywords
  \/ AppendGeneric
  \/ Dedupe
  \/ ReturnFinal

SpecQueries == QueriesInit /\ [][QueriesNext]_vars

(***************************************************************************)
(* SpecRetry: one call of _download or of _speak_chunk, for every number   *)
(* of retries of the bounds and every outcome of each attempt.  Each       *)
(* attempt ends (the requests carry a timeout) and the loop is sequential  *)
(* code: a step that can be taken is taken.                                *)
(***************************************************************************)
MaxRetries == 3      \* largest retries argument
MaxBackoff == 2      \* largest backoff argument of _speak_chunk, seconds

RetryInit ==
  /\ DriverIdle
  /\ alloc = AllocIdle
  /\ query = QueryIdle
  /\ pick = PickIdle
  /\ chunker = ChunkIdle
  /\ \E fn \in {"download", "speak_chunk"}, r \in 0..MaxRetries,
        b \in 1..MaxBackoff :
       /\ fn = "download" => b = 1         \* _download takes no backoff
       /\ retry = [RetryIdle EXCEPT !.fn = fn, !.retries = r, !.backoff = b,
                                    !.pc = "loop", !.attempt = FirstAttempt(fn)]

\* One pass of the for loop: the try block and its except clause.
Attempt ==
  /\ retry.pc = "loop"
  /\ retry.attempt <= LastAttempt(retry.fn, retry.retries)
  /\ \E outcome \in {"ok"} \cup FailureKinds(retry.fn) :
       LET tried == [retry EXCEPT !.tries = Append(retry.tries, outcome)]
       IN IF outcome = "ok"
          THEN retry' = [tried EXCEPT !.pc = "returned"]
          ELSE IF retry.attempt = retry.retries
          THEN retry' = [tried EXCEPT !.pc =
                           IF retry.fn = "download" THEN "returned_false"
                           ELSE "raised"]
          ELSE retry' = [tried EXCEPT
                           !.attempt = retry.attempt + 1,
                           !.sleeps = Append(retry.sleeps,
                                        SleepTime(retry.fn, retry.attempt,
                                                  retry.backoff))]
  /\ UNCHANGED <<driverVars, alloc, query, pick, chunker>>

\* The range is exhausted: the function falls off its end, returning None.
FallThrough ==
  /\ retry.pc = "loop"
  /\ retry.attempt > LastAttempt(retry.fn, retry.retries)
  /\ retry' = [retry EXCEPT !.pc = "returned_none"]
  /\ UNCHANGED <<driverVars, alloc, query, pick, chunker>>

RetryNext ==
  \/ Attempt
  \/ FallThrough

SpecRetry == RetryInit /\ [][RetryNext]_vars /\ WF_vars(RetryNext)

(***************************************************************************)
(* _pick_vertical_urls on its own: one search response, one need.          *)
(***************************************************************************)
MaxFiles == 2        \* video_files of the one video that holds several

\* The encodings a video may list, as <<width, height, link kind>>: two
\* portrait files with a URL, a landscape one that sorts before them, a
\* file whose width and height are missing, and two tall files whose link
\* is missing or is no http link.
FileKinds ==
  {<<1, 2, "http">>, <<2, 3, "http">>, <<4, 3, "http">>, <<0, 0, "http">>,
   <<1, 4, "none">>, <<1, 4, "ftp">>}

\* The file of kind k at place f of video v: its URL tells the place.
FileAt(k, v, f) ==
  [width |-> k[1], height |-> k[2],
   link |-> CASE k[3] = "http" -> 10 * v + f
              [] k[3] = "none" -> NoLink
              [] k[3] = "ftp" -> NonHttp]

VideosOf(kinds) ==
  [v \in 1..Len(kinds) |->
     [video_files |-> [f \in 1..Len(kinds[v]) |-> FileAt(kinds[v][f], v, f)]]]

InsertAt(seq, pos, x) ==
  [k \in 1..(Len(seq) + 1) |->
     IF k < pos THEN seq[k] ELSE IF k = pos THEN x ELSE seq[k - 1]]

\* Responses of up to MaxVideos videos: one video of up to MaxFiles files
\* among videos of one file each.
Responses ==
  {VideosOf(InsertAt(others, Min(pos, Len(others) + 1), several)) :
     several \in SeqsUpTo(FileKinds, MaxFiles),
     others \in SeqsUpTo({<<k>> : k \in FileKinds}, MaxVideos - 1),
     pos \in 1..MaxVideos}
  \cup {<<>>}

PickInit ==
  /\ DriverIdle
  /\ alloc = AllocIdle
  /\ query = QueryIdle
  /\ retry = RetryIdle
  /\ chunker = ChunkIdle
  /\ \E videos \in Responses, need \in 1..MaxVideos :
       pick = [PickIdle EXCEPT !.pc = "loop", !.videos = videos,
                               !.need = need, !.i = 1]

\* files = sorted(...); for f in files: ... urls.append(link); break
PickFromVideo ==
  /\ pick.pc = "loop" /\ pick.i <= Len(pick.videos)
  /\ LET link == FirstVertical(SortFiles(pick.videos[pick.i].video_files))
     IN IF link # NoLink
        THEN pick' = [pick EXCEPT !.pc = "test",
                                  !.urls = Append(pick.urls, link),
                                  !.from = Append(pick.from, pick.i)]
        ELSE pick' = [pick EXCEPT !.pc = "test"]
  /\ UNCHANGED <<driverVars, alloc, query, retry, chunker>>

\* if len(urls) >= need: break
PickTestNeed ==
  /\ pick.pc = "test"
  /\ IF Len(pick.urls) >= pick.need
     THEN pick' = [pick EXCEPT !.pc = "returned"]
     ELSE pick' = [pick EXCEPT !.pc = "loop", !.i = pick.i + 1]
  /\ UNCHANGED <<driverVars, alloc, query, retry, chunker>>

\* The videos are exhausted: return urls.
PickReturn ==
  /\ pick.pc = "loop" /\ pick.i > Len(pick.videos)
  /\ pick' = [pick EXCEPT !.pc = "returned"]
  /\ UNCHANGED <<driverVars, alloc, query, retry, chunker>>

PickNext ==
  \/ PickFromVideo
  \/ PickTestNeed
  \/ PickReturn

SpecPick == PickInit /\ [][PickNext]_vars

(***************************************************************************)
(* _chunk_by_limit on its own.  A str is a sequence of word runs and       *)
(* whitespace characters, as in the allocator; the limit of 3000           *)
(* characters is scaled down with the sentences.                           *)
(***************************************************************************)
MaxChars == 4        \* largest max_chars
MaxSentenceLen == 5  \* characters of the longest one-word sentence
MaxSentences == 3    \* sentences handed to _chunk_by_limit

\* What _sentence_split returns: stripped, non-empty pieces.  One word of
\* any length up to the bound, or two words.
SentenceSet == {<<n>> : n \in 1..MaxSentenceLen} \cup {<<1, Space, 1>>}
SentenceLists == SeqsUpTo(SentenceSet, MaxSentences)

\* len(buf) + len(s) + 1 > max_chars
Overflows(buf, s, max_chars) == StrLen(buf) + StrLen(s) + 1 > max_chars

\* (buf + " " + s).strip()
Joined(buf, s) == Strip(buf \o <<Space>> \o s)

ChunkInit ==
  /\ DriverIdle
  /\ alloc = AllocIdle
  /\ query = QueryIdle
  /\ retry = RetryIdle
  /\ pick = PickIdle
  /\ \E sentences \in SentenceLists, max_chars \in 1..MaxChars :
       chunker = [ChunkIdle EXCEPT !.pc = "loop", !.sentences = sentences,
                                   !.max_chars = max_chars, !.i = 1]

\* The sentence does not fit: buf, if any, becomes a chunk and the
\* sentence starts the next one.
StartChunk ==
  /\ chunker.pc = "loop" /\ chunker.i <= Len(chunker.sentences)
  /\ LET s == chunker.sentences[chunker.i]
     IN /\ Overflows(chunker.buf, s, chunker.max_chars)
        /\ chunker' =
             [chunker EXCEPT
                !.chunks = IF chunker.buf # <<>>
                           THEN Append(chunker.chunks, Strip(chunker.buf))
                           ELSE chunker.chunks,
                !.groups = IF chunker.buf # <<>>
                           THEN Append(chunker.groups, chunker.group)
                           ELSE chunker.groups,
                !.buf = s,
                !.group = <<chunker.i>>,
                !.i = chunker.i + 1]
  /\ UNCHANGED <<driverVars, alloc, query, retry, pick>>

\* The sentence fits: it is joined to buf.
ExtendChunk ==
  /\ chunker.pc = "loop" /\ chunker.i <= Len(chunker.sentences)
  /\ LET s == chunker.sentences[chunker.i]
     IN /\ ~Overflows(chunker.buf, s, chunker.max_chars)
        /\ chunker' = [chunker EXCEPT !.buf = Joined(chunker.buf, s),
                                      !.group = Append(chunker.group, chunker.i),
                                      !.i = chunker.i + 1]
  /\ UNCHANGED <<driverVars, alloc, query, retry, pick>>

\* After the loop: what is left in buf is the last chunk.
ReturnChunks ==
  /\ chunker.pc = "loop" /\ chunker.i > Len(chunker.sentences)
  /\ chunker' =
       [chunker EXCEPT
          !.pc = "returned",
          !.chunks = IF chunker.buf # <<>>
                     THEN Append(chunker.chunks, Strip(chunker.buf))
                     ELSE chunker.chunks,
          !.groups = IF chunker.buf # <<>>
                     THEN Append(chunker.groups, chunker.group)
                     ELSE chunker.groups,
          !.buf = <<>>, !.group = <<>>]
  /\ UNCHANGED <<driverVars, alloc, query, retry, pick>>

ChunkNext ==
  \/ StartChunk
  \/ ExtendChunk
  \/ ReturnChunks

SpecChunk == ChunkInit /\ [][ChunkNext]_vars

(***************************************************************************)
(* Claims about the batch driver and make_video (checked under Spec).      *)
(***************************************************************************)
RunEnded == pc \in {"finished", "crashed"}
LimitReached == limit # 0 /\ produced >= limit

\* C1: when run_pipeline has ended, every script listed after a script whose
\* processing failed (an exception caught around make_video, or one that left
\* run_pipeline) has been processed, unless the limit ended the run: one
\* script's failure never aborts the batch.
C1_FailureNeverAbortsBatch ==
  RunEnded =>
    \A j \in Scripts :
      (\/ failed # 0 /\ j > failed
       \/ pc = "crashed" /\ j > idx)
      => (j \in visited \/ LimitReached)

\* C2: outside a running encode, a file exists at the final path of an id
\* only if a render of that id ran to completion: a make_video call that
\* fails leaves no file there.
C2_NoPartialFinalFile ==
  pc # "encoding" =>
    \A id \in Ids : finalFile[id] # "absent" => id \in renderedOK

C4_FetchNeverRaises == raisedIn # "fetch"

\* C5: _pexels_pick_multi never holds more than need URLs, and whenever it
\* is about to issue a search (list query or safety query) it holds fewer
\* than need.
C5_NeverMoreThanNeed ==
  /\ Len(collected) <= Need
  /\ (\/ pc = "search" /\ qi <= nq
      \/ pc = "safety" /\ qi <= NumSafety) => Len(collected) < Need

\* _pexels_pick_multi has returned exactly need = 2 collected URLs.
C5_Witness ==
  /\ pc = "download" /\ ui = 1
  /\ Need = 2 /\ Len(collected) = 2

\* C6: a download is never under way for a URL whose download has already
\* succeeded, in this run or an earlier one.
C6_NoRedownload == pc = "dl" => collected[ui] \notin downloadedOK

\* In a later run, the cache test finds the file of an earlier successful
\* download, and the clip is opened without a download.
C6_Witness ==
  /\ pc = "open" /\ cacheHit /\ run = 2
  /\ collected[ui] \in downloadedOK
  /\ cacheFile[UrlCachePath(collected[ui])] = "complete"

(***************************************************************************)
(* Claims about the duration allocator (checked under SpecAlloc).          *)
(***************************************************************************)
Allocated == alloc.pc \in {"segments", "timeline"}

\* C7: the segment durations sum to the total narration duration, for every
\* text, duration and clip count: the computed durations sum to it exactly,
\* so the placed ones, each raised by the floor by at most 0.1 s, sum to no
\* less than it and to no more than it plus 0.1 s per segment; and when the
\* clip count equals the paragraph count n, exactly n durations are computed.
C7_SumEqualsTotal ==
  alloc.pc = "timeline" =>
    /\ RatLeq(Tenths(alloc.total_dur), RatSum(alloc.segs))
    /\ RatLeq(RatSum(alloc.segs), Tenths(alloc.total_dur + Len(alloc.segs)))
    /\ alloc.nclips = Len(alloc.paras) => Len(alloc.seg_durs) = alloc.nclips

\* C8: every segment placed on the timeline lasts at least 0.1 s.
C8_SegmentsAtLeastFloor ==
  \A k \in 1..Len(alloc.segs) :
    /\ alloc.segs[k].d > 0
    /\ RatLeq(Tenths(1), alloc.segs[k])

\* A paragraph of weight zero was given a computed duration of 0 and its
\* segment was placed with 0.1 s.
C8_Witness ==
  /\ alloc.pc = "timeline"
  /\ \E k \in 1..Len(alloc.segs) :
       /\ StrLen(alloc.paras[k]) = 0
       /\ alloc.seg_durs[k].n = 0
       /\ RatEq(alloc.segs[k], Tenths(1))

\* C9: there are min(clips, max(1, paragraphs)) computed durations, and when
\* the considered paragraphs have a total length > 0, the i-th is
\* total_dur * len(paragraph i) / (sum of the considered lengths); 30 s over
\* paragraphs of 10 and 20 characters and two or more clips gives 10 s, 20 s.
C9_Proportional ==
  Allocated =>
    LET count == Len(alloc.seg_durs)
        lens == [k \in 1..count |-> StrLen(alloc.paras[k])]
    IN /\ count = Min(alloc.nclips, Max(1, Len(alloc.paras)))
       /\ Sum(lens) > 0 =>
            \A k \in 1..count :
              alloc.seg_durs[k].n * Sum(lens)
                = alloc.total_dur * lens[k] * alloc.seg_durs[k].d
       /\ (/\ alloc.total_dur = 300 /\ alloc.nclips >= 2
           /\ Len(alloc.paras) = 2
           /\ StrLen(alloc.paras[1]) = 10 /\ StrLen(alloc.paras[2]) = 20)
          => /\ RatEq(alloc.seg_durs[1], Tenths(100))
             /\ RatEq(alloc.seg_durs[2], Tenths(200))

\* The example of the specification: 30 s, paragraphs of 10 and 20
\* characters, two clips, allocated 10 s and 20 s.
C9_Witness ==
  /\ alloc.pc = "timeline"
  /\ alloc.total_dur = 300 /\ alloc.nclips = 2
  /\ alloc.paras = <<<<10>>, <<20>>>>
  /\ RatEq(alloc.seg_durs[1], Tenths(100))
  /\ RatEq(alloc.seg_durs[2], Tenths(200))

(***************************************************************************)
(* Claims about the query deriver (checked under SpecQueries).             *)
(***************************************************************************)
\* A query as it compares when letter case and whitespace are ignored.
Folded(s) == StrLower(Normalised(s))

\* C10: for any script text and metadata, the list _auto_queries returns
\* has no two entries that are equal when letter case and whitespace
\* differences are ignored.
C10_NoDuplicateQueries ==
  query.pc = "returned" =>
    \A i, j \in DOMAIN query.final :
      i # j => Folded(query.final[i]) # Folded(query.final[j])

\* Some character of s is not whitespace.
HasText(s) == \E k \in DOMAIN s : ~IsSpace(s[k])

\* C11 as stated: whenever the metadata carries a non-empty image_query,
\* the first element of the returned list is that query.
C11_FirstIsImageQuery ==
  (query.pc = "returned" /\ query.meta.image_query # <<>>) =>
    /\ query.final # <<>>
    /\ query.final[1] = query.meta.image_query

\* C11 as amended: whenever the image_query holds a character that is not
\* whitespace, the first element of the returned list is that query with
\* the whitespace around it removed and every run of whitespace inside it
\* replaced by one blank, whatever the channel code, language and text.
C11_FirstIsNormalisedImageQuery ==
  (query.pc = "returned" /\ HasText(query.meta.image_query)) =>
    /\ query.final # <<>>
    /\ query.final[1] = Normalised(query.meta.image_query)

\* A padded, capitalised override on a script of family HM with a text of
\* its own came back first, in its normalised form.
C11_Witness ==
  /\ query.pc = "returned"
  /\ query.meta.image_query = Padded(WithCase(P(<<"desert", "dunes">>), "title"))
  /\ FamilyCode(query.meta.channel_code) = Fam("hm")
  /\ query.script_text # <<>>
  /\ Len(query.final) >= 5
  /\ query.final[1] = WithCase(P(<<"desert", "dunes">>), "title")

\* C12: the list _auto_queries returns is never empty and holds no empty
\* string, also for an empty text with no metadata; the generic fallbacks
\* end every list.
C12_NonEmptyQueries ==
  query.pc = "returned" =>
    /\ query.final # <<>>
    /\ \A k \in DOMAIN query.final : query.final[k] # <<>>
    /\ \A g \in DOMAIN GENERIC_FALLBACKS :
         \E k \in DOMAIN query.final : query.final[k] = GENERIC_FALLBACKS[g]

\* The empty text with no metadata returned the three generic fallbacks,
\* and a blank image_query was dropped from another list.
C12_Witness ==
  /\ query.pc = "returned"
  /\ query.script_text = <<>>
  /\ query.meta \in {NoMeta, [NoMeta EXCEPT !.image_query = <<Blank>>]}
  /\ query.final = GENERIC_FALLBACKS

\* C13: after make_video has returned or raised, at whatever step, every
\* media handle it opened (narration, source clips, composed video) has
\* been released.
C13_HandlesReleased ==
  pc = "after" => openHandles = {}

(***************************************************************************)
(* Claims about the retry loops (checked under SpecRetry).                 *)
(***************************************************************************)
RetryEnded == retry.pc \in {"returned", "returned_false", "raised", "returned_none"}
Failures(tries) == Cardinality({k \in DOMAIN tries : tries[k] # "ok"})
StrictlyIncreasing(ts) == \A k \in 1..(Len(ts) - 1) : ts[k] < ts[k + 1]

\* The attempts, pauses and ending of a call in any of its states.
RetryWithinBounds ==
  /\ StrictlyIncreasing(retry.sleeps)
  /\ \A k \in DOMAIN retry.sleeps : retry.sleeps[k] > 0
  /\ Len(retry.sleeps) <= Failures(retry.tries)
  /\ \A k \in DOMAIN retry.tries : retry.tries[k] = "ok" => k = Len(retry.tries)
  /\ retry.fn = "download" =>
       /\ Len(retry.tries) <= retry.retries + 1
       /\ retry.pc # "raised"
       /\ retry.pc = "returned_false" =>
            Failures(retry.tries) = retry.retries + 1
  /\ retry.fn = "speak_chunk" =>
       /\ Len(retry.tries) <= retry.retries
       /\ retry.pc # "returned_false"
       /\ retry.pc = "raised" =>
            /\ Failures(retry.tries) = retry.retries
            /\ Len(retry.sleeps) = retry.retries - 1

\* C14: every retry loop is bounded and ends.  _download makes at most
\* retries + 1 attempts with strictly increasing pauses between them and
\* returns False, without raising, after the last failure; _speak_chunk
\* makes at most retries attempts with increasing pauses and raises after
\* the last failure; no attempt follows a success; every call ends.
C14_RetriesBounded ==
  /\ []RetryWithinBounds
  /\ [][RetryEnded => retry' = retry]_vars
  /\ <>RetryEnded

\* The default calls at their worst: three failed downloads with pauses of
\* 1 s and 2 s, or three failed syntheses with pauses of 2 s and 4 s.
C14_Witness ==
  \/ /\ retry.fn = "download" /\ retry.retries = Retries
     /\ retry.pc = "returned_false"
     /\ Len(retry.tries) = 3 /\ retry.sleeps = <<1, 2>>
  \/ /\ retry.fn = "speak_chunk" /\ retry.retries = SpeakRetries
     /\ retry.backoff = SpeakBackoff /\ retry.pc = "raised"
     /\ Len(retry.tries) = 3 /\ retry.sleeps = <<2, 4>>

(***************************************************************************)
(* Further claims about the duration allocator (checked under SpecAlloc).  *)
(***************************************************************************)
\* C15: when every considered paragraph has length zero, each of the count
\* segments is given total_dur / count.
C15_EqualSplitWhenNoWeight ==
  Allocated =>
    LET count == Len(alloc.seg_durs)
    IN (\A k \in 1..count : StrLen(alloc.paras[k]) = 0) =>
         \A k \in 1..count :
           RatEq(alloc.seg_durs[k], Rat(alloc.total_dur, count))

(***************************************************************************)
(* Further claims about the batch driver and make_video (checked under     *)
(* Spec).                                                                  *)
(***************************************************************************)
\* C16: outside a running _download, a file that exists at a URL's cache
\* path holds the complete content of a successful download of that URL,
\* so that whatever a cache test accepts, in this run or a later one, is
\* complete; a failed download leaves no file there.
C16_CacheEntriesComplete ==
  pc # "dl" =>
    \A u \in URLs :
      Exists(cacheFile, UrlCachePath(u)) =>
        /\ cacheFile[UrlCachePath(u)] = "complete"
        /\ u \in downloadedOK

\* C17: the query deriver receives the metadata of the script in hand: the
\* queries that are searched begin with the script's image_query, and its
\* channel code and language select the family default and the stopwords.
C17_QueriesUseScriptMeta ==
  pc = "search" =>
    /\ ExplicitQueries(queryMeta) = ExplicitQueries(scriptMeta)
    /\ FamilyQueries(queryMeta) = FamilyQueries(scriptMeta)
    /\ StopWords(queryMeta) = StopWords(scriptMeta)

\* C18: a safety query is issued only when every query of the list has
\* been tried and fewer than need URLs are collected, the second one only
\* if that is still so after the first; when the list alone gave need
\* URLs, none is issued.
C18_SafetyOnlyWhenShort ==
  /\ [](pc = "safety" => Len(collected) < Need)
  /\ [][(pc # "safety" /\ pc' = "safety") =>
          (pc = "search" /\ qi > nq /\ qi' = 1)]_vars
  /\ [][(pc = "safety" /\ pc' = "safety" /\ qi' # qi) =>
          (qi' = qi + 1 /\ qi' <= NumSafety + 1)]_vars

\* The second safety query is about to be issued: the list and the first
\* safety query left the collection short.
C18_Witness ==
  /\ pc = "safety" /\ qi = 2
  /\ Len(collected) < Need

\* C19: within one run, distinct script files never resolve to the same
\* identifier: whenever a script is skipped as done or starts being
\* processed, no earlier script of the run has written its audio (and its
\* video) under the identifier this one resolved to.
C19_IdsDistinctWithinRun ==
  [][(pc = "loop" /\ pc' \in {"loop", "tts"} /\ idx' >= idx /\ sid' # 0)
       => sid' \notin usedIds]_vars

(***************************************************************************)
(* Claims about _pick_vertical_urls (checked under SpecPick).              *)
(***************************************************************************)
Eligible(f) == f.height >= f.width /\ f.link # NoLink /\ f.link # NonHttp

EligibleFiles(v) ==
  {v.video_files[f] : f \in {g \in 1..Len(v.video_files) :
                                Eligible(v.video_files[g])}}

\* Links of the eligible files no eligible file of the video exceeds in
\* (height, width).
BestLinks(v) ==
  {f.link : f \in {g \in EligibleFiles(v) :
                     \A h \in EligibleFiles(v) : ~KeyGreater(h, g)}}

\* Videos the loop has looked at when it returns.
Examined == 1..Min(pick.i, Len(pick.videos))

\* C20: when _pick_vertical_urls returns, each URL comes from a video of
\* its own and is the link of a file that has the greatest (height, width)
\* among that video's files with height >= width and a non-empty http link;
\* the URLs are in the order of their videos in the response; and a video
\* that was looked at and gave no URL has no such file.
C20_BestVerticalFilePerVideo ==
  pick.pc = "returned" =>
    /\ Len(pick.from) = Len(pick.urls)
    /\ \A k \in 1..Len(pick.urls) :
         /\ pick.from[k] \in Examined
         /\ pick.urls[k] \in BestLinks(pick.videos[pick.from[k]])
    /\ \A k, l \in 1..Len(pick.from) : k < l => pick.from[k] < pick.from[l]
    /\ \A v \in Examined :
         (\A k \in 1..Len(pick.from) : pick.from[k] # v)
           => EligibleFiles(pick.videos[v]) = {}

\* Two videos gave a URL, and one of them lists a file that sorts before
\* the chosen one but is landscape or has no http link.
C20_Witness ==
  /\ pick.pc = "returned" /\ Len(pick.urls) = 2
  /\ \E k \in 1..2 :
       LET files == pick.videos[pick.from[k]].video_files
       IN \E f, g \in 1..Len(files) :
            /\ files[f].link = pick.urls[k]
            /\ ~Eligible(files[g])
            /\ KeyGreater(files[g], files[f])

(***************************************************************************)
(* Claims about _chunk_by_limit (checked under SpecChunk).                 *)
(***************************************************************************)
RECURSIVE Flatten(_)
Flatten(seqs) == IF seqs = <<>> THEN <<>> ELSE Head(seqs) \o Flatten(Tail(seqs))

\* The sentences of a group, joined by single spaces.
RECURSIVE JoinSentences(_, _)
JoinSentences(sentences, group) ==
  IF group = <<>> THEN <<>>
  ELSE IF Len(group) = 1 THEN sentences[group[1]]
  ELSE sentences[group[1]] \o <<Space>> \o JoinSentences(sentences, Tail(group))

ChunksWithinLimit ==
  \A k \in 1..Len(chunker.chunks) :
    StrLen(chunker.chunks[k]) <= chunker.max_chars

ChunksHoldEverySentenceOnce ==
  /\ Len(chunker.groups) = Len(chunker.chunks)
  /\ Flatten(chunker.groups) = [j \in 1..Len(chunker.sentences) |-> j]
  /\ \A k \in 1..Len(chunker.chunks) :
       chunker.chunks[k] = JoinSentences(chunker.sentences, chunker.groups[k])

\* C21: when _chunk_by_limit returns, every chunk is at most max_chars
\* characters long, and the chunks are the sentences, each exactly once
\* and in their order, joined in groups.
C21_ChunksWithinLimitAndComplete ==
  chunker.pc = "returned" => ChunksWithinLimit /\ ChunksHoldEverySentenceOnce
====
